---- MODULE Spec2Model ----
(***************************************************************************)
(* Critical-path analysis of a course prerequisite graph, as computed by   *)
(* calculate_critical_path in app.py.  A course list (as loaded from a     *)
(* program JSON file) is analysed: a lookup map is built, depth and height *)
(* of every course are computed by two recursive descents with a           *)
(* path-local visited set, and the courses of maximal path length are      *)
(* marked critical.                                                        *)
(***************************************************************************)
EXTENDS Integers, Sequences, FiniteSets, TLC

\* courses:    the list passed to calculate_critical_path
\* course_map: the id -> course lookup built from it
\* metrics:    the id -> record mapping under construction, then returned
\* idx:        position of the metrics loop in courses
\* pc:         "called", "loop", "returned" or "raised"
\* error:      the exception the call ended with, "none" if it returned; the
\*             function has no raise statement, only max() could raise
VARIABLES courses, course_map, metrics, idx, pc, error

vars == <<courses, course_map, metrics, idx, pc, error>>

(***************************************************************************)
(* Bounds of the explored inputs.                                          *)
(***************************************************************************)
\* Prerequisite entries of a course list, all courses together.
MaxEdges == 4

\* Ids a course may carry, in the order fresh ids are introduced.
IdOrder == <<"A", "B", "C", "D">>
\* A course list holds at most as many courses as there are ids; a list that
\* repeats an id has fewer distinct ids than courses.
MaxCourses == Len(IdOrder)
\* An id that never names a course: a dangling reference.
Dangling == "X"
\* Order in which generated prerequisite lists hold their ids.
RefOrder == IdOrder \o <<Dangling>>

Max(a, b) == IF a >= b THEN a ELSE b

SeqRange(s) == {s[i] : i \in DOMAIN s}

(***************************************************************************)
(* Input generation: every course list of at most MaxCourses courses whose *)
(* ids are introduced in IdOrder (ids are opaque to the analysis, so the   *)
(* first occurrence of each id is taken in a fixed order), with any        *)
(* prerequisite lists over the ids present and the dangling id, holding at *)
(* most MaxEdges entries in all.  Duplicate ids, self-loops, cycles and    *)
(* dangling references are all generated.                                  *)
(***************************************************************************)
RECURSIVE IdSeqs(_)
IdSeqs(n) ==
    IF n = 0 THEN {<<>>}
    ELSE LET prev == IdSeqs(n - 1)
         IN  UNION {
               LET used == Cardinality(SeqRange(s))
                   fresh == IF used < Len(IdOrder) THEN {IdOrder[used + 1]} ELSE {}
               IN  {Append(s, x) : x \in SeqRange(s) \cup fresh}
               : s \in prev }

ListOf(S) == SelectSeq(RefOrder, LAMBDA x : x \in S)

\* The prerequisite lists of n courses over targets, budget entries at most
\* in all: the first course takes k of them, the others share the rest.
RECURSIVE PrereqAssignments(_, _, _)
PrereqAssignments(n, targets, budget) ==
    IF n = 0 THEN {<<>>}
    ELSE UNION {
           LET rests == PrereqAssignments(n - 1, targets, budget - k)
               firsts == {Q \in SUBSET targets : Cardinality(Q) = k}
           IN  {<<ListOf(P)>> \o rest : P \in firsts, rest \in rests}
           : k \in 0..budget }

MakeCourses(ids, pre) ==
    [i \in 1..Len(ids) |-> [id |-> ids[i], semester |-> 1, prerequisites |-> pre[i]]]

\* The course lists the analysis is run on.
IsInput(cs) ==
    \E n \in 0..MaxCourses :
        \E ids \in IdSeqs(n) :
            \E pre \in PrereqAssignments(n, SeqRange(ids) \cup {Dangling}, MaxEdges) :
                cs = MakeCourses(ids, pre)

(***************************************************************************)
(* calculate_critical_path                                                 *)
(***************************************************************************)

\* course_map = {c["id"]: c for c in courses}: a later course replaces an
\* earlier one of the same id.
LastIndexOf(cs, id) ==
    CHOOSE i \in DOMAIN cs :
        /\ cs[i].id = id
        /\ \A j \in DOMAIN cs : cs[j].id = id => j <= i

BuildCourseMap(cs) ==
    [id \in {cs[i].id : i \in DOMAIN cs} |-> cs[LastIndexOf(cs, id)]]

\* Slip: the test is left out, a dangling id is descended into.
InCourseMapAlways(prereq_id, cmap) == TRUE

\* `if prereq_id in course_map`
InCourseMap(prereq_id, cmap) == prereq_id \in DOMAIN cmap

\* Slip: the running maximum is dropped, the last prerequisite wins.
StepDepthLastWins(max_prereq_depth, prereq_depth) == prereq_depth + 1

\* `max_prereq_depth = max(max_prereq_depth, prereq_depth + 1)`
StepDepth(max_prereq_depth, prereq_depth) == Max(max_prereq_depth, prereq_depth + 1)

RECURSIVE calc_depth(_, _, _)
RECURSIVE DepthLoop(_, _, _, _, _)

\* Slip: the return statement sits inside the loop, after the first
\* prerequisite found in course_map.
RECURSIVE DepthLoopFirstOnly(_, _, _, _, _)
DepthLoopFirstOnly(prereqs, k, max_prereq_depth, visited, cmap) ==
    IF k > Len(prereqs) THEN max_prereq_depth
    ELSE IF InCourseMap(prereqs[k], cmap)
         THEN StepDepth(max_prereq_depth, calc_depth(prereqs[k], visited, cmap))
         ELSE DepthLoopFirstOnly(prereqs, k + 1, max_prereq_depth, visited, cmap)

\* The for loop of calc_depth over course["prerequisites"], from entry k on;
\* every recursive call receives its own copy of visited.
DepthLoop(prereqs, k, max_prereq_depth, visited, cmap) ==
    IF k > Len(prereqs) THEN max_prereq_depth
    ELSE IF InCourseMap(prereqs[k], cmap)
         THEN DepthLoop(prereqs, k + 1,
                        StepDepth(max_prereq_depth, calc_depth(prereqs[k], visited, cmap)),
                        visited, cmap)
         ELSE DepthLoop(prereqs, k + 1, max_prereq_depth, visited, cmap)

calc_depth(course_id, visited, cmap) ==
    IF course_id \in visited THEN 0
    ELSE IF course_id \notin DOMAIN cmap THEN 0
    ELSE IF cmap[course_id].prerequisites = <<>> THEN 0
    ELSE DepthLoop(cmap[course_id].prerequisites, 1, 0, visited \cup {course_id}, cmap)

\* Slip: the list is tested for being non-empty instead of for membership.
ListsAnyPrerequisite(c, course_id) == c.prerequisites # <<>>

\* `if course_id in c.get("prerequisites", [])`
ListsPrerequisite(c, course_id) == course_id \in SeqRange(c.prerequisites)

\* Slip: the running maximum is dropped, the last dependent wins.
StepHeightLastWins(max_dep_height, dep_height) == dep_height + 1

\* `max_dep_height = max(max_dep_height, dep_height + 1)`
StepHeight(max_dep_height, dep_height) == Max(max_dep_height, dep_height + 1)

RECURSIVE calc_height(_, _, _)
RECURSIVE HeightLoop(_, _, _, _, _)

\* The for loop of calc_height over courses (the list, not the map), from
\* entry k on.
HeightLoop(cs, k, max_dep_height, course_id, visited) ==
    IF k > Len(cs) THEN max_dep_height
    ELSE IF ListsPrerequisite(cs[k], course_id)
         THEN HeightLoop(cs, k + 1,
                         StepHeight(max_dep_height, calc_height(cs[k].id, visited, cs)),
                         course_id, visited)
         ELSE HeightLoop(cs, k + 1, max_dep_height, course_id, visited)

calc_height(course_id, visited, cs) ==
    IF course_id \in visited THEN 0
    ELSE HeightLoop(cs, 1, 0, course_id, visited \cup {course_id})

\* Slip: the course is not recorded as visited.
AddVisitedForgotten(visited, course_id) == visited

\* `visited.add(course_id)`
AddVisited(visited, course_id) == visited \cup {course_id}

\* Largest number of nested calls a descent is followed through.
DescentCap(cs) == Len(cs) + 1

\* The largest number of a non-empty set of numbers.
Largest(S) == CHOOSE m \in S : \A x \in S : x <= m

\* The number of courses the longest descent of calc_depth(course_id, visited)
\* marks visited one below the other: a call that finds its id in visited
\* marks nothing, any other call marks its id and descends into each
\* prerequisite found in course_map with a copy of visited.
RECURSIVE DepthDescent(_, _, _, _)
DepthDescent(course_id, visited, cmap, cap) ==
    IF course_id \in visited THEN 0
    ELSE IF cap = 0 THEN 1
    ELSE IF course_id \notin DOMAIN cmap THEN 1
    ELSE LET below == {q \in SeqRange(cmap[course_id].prerequisites) : InCourseMap(q, cmap)}
         IN  1 + Largest({0} \cup
                   {DepthDescent(p, AddVisited(visited, course_id), cmap, cap - 1) :
                        p \in below})

\* The same for calc_height(course_id, visited), which descends into the id of
\* every course of the list that lists course_id.
RECURSIVE HeightDescent(_, _, _, _)
HeightDescent(course_id, visited, cs, cap) ==
    IF course_id \in visited THEN 0
    ELSE IF cap = 0 THEN 1
    ELSE LET below == {cs[k].id : k \in {j \in DOMAIN cs : ListsPrerequisite(cs[j], course_id)}}
         IN  1 + Largest({0} \cup
                   {HeightDescent(d, AddVisited(visited, course_id), cs, cap - 1) :
                        d \in below})

\* Slip: the semester is left 0-indexed.
EarliestSemesterZeroIndexed(depth) == depth

\* `earliest_semester = depth + 1  # 1-indexed`
EarliestSemester(depth) == depth + 1

\* `"path_length": depth + height`
PathLength(depth, height) == depth + height

\* Slip: the semester the course is scheduled in is reported as its earliest
\* semester.
CourseMetricsScheduled(course_id, cs, cmap) ==
    LET depth == calc_depth(course_id, {}, cmap)
        height == calc_height(course_id, {}, cs)
    IN  [depth |-> depth,
         height |-> height,
         earliest_semester |-> cmap[course_id].semester,
         path_length |-> PathLength(depth, height)]

\* The record stored for one course by the metrics loop.
CourseMetrics(course_id, cs, cmap) ==
    LET depth == calc_depth(course_id, {}, cmap)
        height == calc_height(course_id, {}, cs)
    IN  [depth |-> depth,
         height |-> height,
         earliest_semester |-> EarliestSemester(depth),
         path_length |-> PathLength(depth, height)]

\* `critical_length = max(m["path_length"] for m in metrics.values())`
CriticalLength(m) ==
    CHOOSE l \in {m[id].path_length : id \in DOMAIN m} :
        \A id \in DOMAIN m : m[id].path_length <= l

\* Slip: off by one in the comparison with the critical length.
IsCriticalOffByOne(path_length, critical_length) == path_length + 1 >= critical_length

\* `m["path_length"] == critical_length`
IsCritical(path_length, critical_length) == path_length = critical_length

\* Slip: the marking pass is entered whatever the mapping holds.
HasMetricsUnguarded(m) == TRUE

\* `if metrics:` -- a dict is true when it is not empty.
HasMetrics(m) == DOMAIN m # {}

\* max() of an empty iterable raises ValueError.
CriticalLengthRaises(m) == DOMAIN m = {}

\* The marking pass: every record gains is_critical; an empty mapping is
\* left as it is.
MarkCritical(m) ==
    IF HasMetrics(m)
    THEN LET critical_length == CriticalLength(m)
         IN  [id \in DOMAIN m |->
                [depth |-> m[id].depth,
                 height |-> m[id].height,
                 earliest_semester |-> m[id].earliest_semester,
                 path_length |-> m[id].path_length,
                 is_critical |-> IsCritical(m[id].path_length, critical_length)]]
    ELSE m

\* metrics[course_id] = {...}
Store(m, course_id, rec) ==
    [id \in DOMAIN m \cup {course_id} |-> IF id = course_id THEN rec ELSE m[id]]

\* The whole function, as one value: the metrics loop from course k on,
\* then the marking pass.
RECURSIVE MetricsLoop(_, _, _, _)
MetricsLoop(cs, k, m, cmap) ==
    IF k > Len(cs) THEN m
    ELSE MetricsLoop(cs, k + 1, Store(m, cs[k].id, CourseMetrics(cs[k].id, cs, cmap)), cmap)

calculate_critical_path(cs) == MarkCritical(MetricsLoop(cs, 1, <<>>, BuildCourseMap(cs)))

(***************************************************************************)
(* The analysis as a state machine.                                        *)
(***************************************************************************)
Init ==
    /\ IsInput(courses)
    /\ course_map = <<>>
    /\ metrics = <<>>
    /\ idx = 0
    /\ pc = "called"
    /\ error = "none"

\* course_map = {...}; metrics = {}
Begin ==
    /\ pc = "called"
    /\ course_map' = BuildCourseMap(courses)
    /\ metrics' = <<>>
    /\ idx' = 1
    /\ pc' = "loop"
    /\ UNCHANGED <<courses, error>>

\* Slip: the iteration empties the prerequisite list of the course it reads.
ComputeCourseConsuming ==
    /\ pc = "loop"
    /\ idx <= Len(courses)
    /\ metrics' = Store(metrics, courses[idx].id,
                        CourseMetrics(courses[idx].id, courses, course_map))
    /\ idx' = idx + 1
    /\ courses' = [courses EXCEPT ![idx].prerequisites = <<>>]
    /\ UNCHANGED <<course_map, pc, error>>

\* One iteration of `for course in courses`.
ComputeCourse ==
    /\ pc = "loop"
    /\ idx <= Len(courses)
    /\ metrics' = Store(metrics, courses[idx].id,
                        CourseMetrics(courses[idx].id, courses, course_map))
    /\ idx' = idx + 1
    /\ UNCHANGED <<courses, course_map, pc, error>>

\* `if metrics:` ... mark ... `return metrics`; the call ends with ValueError
\* instead if max() is reached with nothing to take the maximum of.
MarkAndReturn ==
    /\ pc = "loop"
    /\ idx > Len(courses)
    /\ IF HasMetrics(metrics) /\ CriticalLengthRaises(metrics)
       THEN /\ error' = "ValueError"
            /\ pc' = "raised"
            /\ metrics' = metrics
       ELSE /\ metrics' = MarkCritical(metrics)
            /\ pc' = "returned"
            /\ error' = error
    /\ UNCHANGED <<courses, course_map, idx>>

Next == Begin \/ ComputeCourse \/ MarkAndReturn

Spec == Init /\ [][Next]_vars

(***************************************************************************)
(* The prerequisite graph of an input, independently of the analysis.      *)
(***************************************************************************)
CourseIds(cs) == {cs[i].id : i \in DOMAIN cs}

UniqueIds(cs) == \A i, j \in DOMAIN cs : cs[i].id = cs[j].id => i = j

\* p -> c : some course of id c lists p, and p names a course of the input.
Edges(cs) ==
    {e \in CourseIds(cs) \X CourseIds(cs) :
        \E i \in DOMAIN cs : cs[i].id = e[2] /\ e[1] \in SeqRange(cs[i].prerequisites)}

PresentPrerequisites(cs, c) == {p \in CourseIds(cs) : <<p, c>> \in Edges(cs)}

Dependents(cs, c) == {d \in CourseIds(cs) : <<c, d>> \in Edges(cs)}

\* Chains: sequences of distinct ids, each the prerequisite of the next.
ExtendChains(S, cs) ==
    {t \in {Append(s, c) : s \in S, c \in CourseIds(cs)} :
        /\ <<t[Len(t) - 1], t[Len(t)]>> \in Edges(cs)
        /\ \A k \in 1..(Len(t) - 1) : t[k] # t[Len(t)]}

RECURSIVE ChainsFrom(_, _, _)
ChainsFrom(S, cs, k) ==
    IF k = 0 \/ S = {} THEN S ELSE S \cup ChainsFrom(ExtendChains(S, cs), cs, k - 1)

Chains(cs) == ChainsFrom({<<c>> : c \in CourseIds(cs)}, cs, Cardinality(CourseIds(cs)))

HasCycle(cs) == \E s \in Chains(cs) : <<s[Len(s)], s[1]>> \in Edges(cs)

Acyclic(cs) == ~HasCycle(cs)

MaxOf(S) == CHOOSE m \in S : \A n \in S : n <= m

\* Number of edges of the longest chain ending at c, starting at c, and of
\* the longest chain of the graph.
LongestInto(cs, c) == MaxOf({Len(s) - 1 : s \in {t \in Chains(cs) : t[Len(t)] = c}})
LongestOutOf(cs, c) == MaxOf({Len(s) - 1 : s \in {t \in Chains(cs) : t[1] = c}})
LongestChain(cs) == MaxOf({Len(s) - 1 : s \in Chains(cs)})

OnLongestChain(cs, c) ==
    \E s \in Chains(cs) : Len(s) - 1 = LongestChain(cs) /\ c \in SeqRange(s)

Returned == pc = "returned"

(***************************************************************************)
(* Claims                                                                  *)
(***************************************************************************)

\* C1: whenever the prerequisite relation over the ids present has a cycle
\* (a self-loop included, a cycle through only some courses included), the
\* analysis fails with CycleDetected and returns no metrics at all.
C1_CycleIsRejected ==
    (Returned /\ HasCycle(courses)) => (error = "CycleDetected" /\ metrics = <<>>)

\* C2: whenever two or more courses of the input share an id, processing
\* fails with DuplicateId and yields neither a graph nor metrics.
C2_DuplicateIsRejected ==
    (Returned /\ ~UniqueIds(courses)) =>
        (error = "DuplicateId" /\ course_map = <<>> /\ metrics = <<>>)

\* C3: on an acyclic input with unique ids, depth[c] is 0 when c has no
\* prerequisite present in the input and otherwise 1 + the maximum depth of
\* its present prerequisites, which is the number of edges of the longest
\* prerequisite chain ending at c.
C3_DepthIsLongestChainInto ==
    (Returned /\ UniqueIds(courses) /\ Acyclic(courses)) =>
        \A c \in CourseIds(courses) :
            LET pp == PresentPrerequisites(courses, c)
            IN  /\ metrics[c].depth =
                       (IF pp = {} THEN 0 ELSE 1 + MaxOf({metrics[p].depth : p \in pp}))
                /\ metrics[c].depth = LongestInto(courses, c)

\* A course with two prerequisites that share an ancestor, at depth 2.
C3_Witness ==
    /\ Returned /\ UniqueIds(courses) /\ Acyclic(courses)
    /\ \E c, p, q, a \in CourseIds(courses) :
           /\ p # q
           /\ {p, q} \subseteq PresentPrerequisites(courses, c)
           /\ a \in PresentPrerequisites(courses, p) \cap PresentPrerequisites(courses, q)
           /\ metrics[c].depth = 2

\* C4: on an acyclic input with unique ids, height[c] is 0 when no course
\* lists c as a prerequisite and otherwise 1 + the maximum height of the
\* courses that list c, which is the number of edges of the longest chain of
\* dependents starting at c.
C4_HeightIsLongestChainOutOf ==
    (Returned /\ UniqueIds(courses) /\ Acyclic(courses)) =>
        \A c \in CourseIds(courses) :
            LET dd == Dependents(courses, c)
            IN  /\ metrics[c].height =
                       (IF dd = {} THEN 0 ELSE 1 + MaxOf({metrics[d].height : d \in dd}))
                /\ metrics[c].height = LongestOutOf(courses, c)

\* A course with two dependents of different heights, itself at height 2.
C4_Witness ==
    /\ Returned /\ UniqueIds(courses) /\ Acyclic(courses)
    /\ \E c, d, e \in CourseIds(courses) :
           /\ {d, e} \subseteq Dependents(courses, c)
           /\ metrics[d].height = 1
           /\ metrics[e].height = 0
           /\ metrics[c].height = 2

\* C5: in the mapping returned for a non-empty input every record has an
\* is_critical value, true exactly when the record's path_length is the
\* maximum path_length of the mapping; so some course is critical.
C5_CriticalIffMaximalPathLength ==
    (Returned /\ courses # <<>>) =>
        /\ \A c \in DOMAIN metrics :
               /\ "is_critical" \in DOMAIN metrics[c]
               /\ metrics[c].is_critical \in BOOLEAN
               /\ metrics[c].is_critical <=>
                      (\A d \in DOMAIN metrics : metrics[d].path_length <= metrics[c].path_length)
        /\ \E c \in DOMAIN metrics : metrics[c].is_critical

\* Two courses tied at the maximum, both marked, and a third one unmarked.
C5_Witness ==
    /\ Returned
    /\ \E c, d, e \in DOMAIN metrics :
           /\ c # d
           /\ metrics[c].is_critical /\ metrics[d].is_critical
           /\ ~metrics[e].is_critical
           /\ metrics[e].path_length + 1 = metrics[c].path_length

\* C6: on every acyclic input a course is marked is_critical if and only if
\* it lies on some prerequisite chain whose number of edges is the longest
\* chain length of the whole graph.
C6_CriticalIffOnLongestChain ==
    (Returned /\ Acyclic(courses)) =>
        \A c \in CourseIds(courses) :
            metrics[c].is_critical <=> OnLongestChain(courses, c)

\* C7: the returned mapping has exactly one record per course id of the
\* input, and each record has earliest_semester = depth + 1,
\* path_length = depth + height, depth >= 0, height >= 0,
\* earliest_semester >= 1.
C7_RecordShape ==
    Returned =>
        /\ DOMAIN metrics = CourseIds(courses)
        /\ \A c \in DOMAIN metrics :
               /\ metrics[c].earliest_semester = metrics[c].depth + 1
               /\ metrics[c].path_length = metrics[c].depth + metrics[c].height
               /\ metrics[c].depth \in Nat
               /\ metrics[c].height \in Nat
               /\ metrics[c].earliest_semester >= 1

\* A returned mapping with a course in the middle of a chain.
C7_Witness ==
    /\ Returned
    /\ Len(courses) >= 3
    /\ \E c \in DOMAIN metrics : metrics[c].depth >= 1 /\ metrics[c].height >= 1

\* The input with id x appended to the prerequisites of course i.
AddPrerequisite(cs, i, x) ==
    [cs EXCEPT ![i].prerequisites = Append(@, x)]

\* Ids that name no course of the input.
AbsentIds(cs) == SeqRange(RefOrder) \ CourseIds(cs)

\* C8: adding to any course's prerequisites an id that names no course
\* raises no error and leaves every course's metrics as they are; a course
\* whose prerequisites are all dangling has depth 0.
C8_DanglingIsIgnored ==
    Returned =>
        /\ error = "none"
        /\ \A i \in DOMAIN courses : \A x \in AbsentIds(courses) :
               calculate_critical_path(AddPrerequisite(courses, i, x)) = metrics
        /\ \A i \in DOMAIN courses :
               (/\ courses[i].prerequisites # <<>>
                /\ SeqRange(courses[i].prerequisites) \cap CourseIds(courses) = {})
                   => metrics[courses[i].id].depth = 0

\* C9: any course whose prerequisite collection is empty gets depth 0 and
\* earliest_semester 1, whatever the rest of the graph.
C9_NoPrerequisitesDepthZero ==
    Returned =>
        \A i \in DOMAIN courses :
            courses[i].prerequisites = <<>> =>
                /\ metrics[courses[i].id].depth = 0
                /\ metrics[courses[i].id].earliest_semester = 1

\* C10: any course that no course of the input lists as a prerequisite gets
\* height 0, whatever the rest of the graph.
C10_NoDependentsHeightZero ==
    Returned =>
        \A i \in DOMAIN courses :
            (\A j \in DOMAIN courses :
                 courses[i].id \notin SeqRange(courses[j].prerequisites))
                => metrics[courses[i].id].height = 0

\* A course nobody requires, sitting behind a prerequisite cycle.
C10_Witness ==
    /\ Returned
    /\ HasCycle(courses)
    /\ \E i \in DOMAIN courses :
           /\ \A j \in DOMAIN courses :
                  courses[i].id \notin SeqRange(courses[j].prerequisites)
           /\ metrics[courses[i].id].depth >= 2
           /\ metrics[courses[i].id].height = 0

\* Scheduled semesters and descriptive fields a course may carry.
Payloads ==
    {[semester |-> 1, name |-> "General Chemistry I", credits |-> 3, description |-> ""],
     [semester |-> 8, name |-> "Senior Thesis", credits |-> 0, description |-> "capstone"]}

\* The input with course i carrying the semester and descriptive fields
\* pay[i]; ids and prerequisites are kept.
WithPayloads(cs, pay) ==
    [i \in DOMAIN cs |->
        [id |-> cs[i].id,
         name |-> pay[i].name,
         credits |-> pay[i].credits,
         semester |-> pay[i].semester,
         description |-> pay[i].description,
         prerequisites |-> cs[i].prerequisites]]

\* The ways the payloads are dealt out: all courses alike, or one course
\* unlike all the others.
PayloadAssignments(cs) ==
    {[i \in DOMAIN cs |-> p] : p \in Payloads}
    \cup {[i \in DOMAIN cs |-> IF i = k THEN p ELSE q] :
              k \in DOMAIN cs, p \in {x \in Payloads : x.semester # 1},
              q \in {x \in Payloads : x.semester = 1}}

\* C11: the metrics do not depend on the scheduled semester nor on name,
\* credits or description: an input with the same ids and prerequisites in
\* the same order, but other such fields, yields the same mapping.
C11_DescriptiveFieldsIgnored ==
    Returned =>
        \A pay \in PayloadAssignments(courses) :
            calculate_critical_path(WithPayloads(courses, pay)) = metrics

\* A course scheduled in semester 1 whose computed earliest semester is 3.
C11_Witness ==
    /\ Returned
    /\ \E i \in DOMAIN courses :
           /\ courses[i].semester = 1
           /\ metrics[courses[i].id].earliest_semester = 3
           /\ metrics[courses[i].id].is_critical

\* C12: the empty course list is a valid input: the call ends by returning,
\* with no error and an empty mapping.
C12_EmptyInputReturnsEmpty ==
    (courses = <<>> /\ pc \notin {"called", "loop"}) =>
        (pc = "returned" /\ error = "none" /\ metrics = <<>>)

\* The call on the empty list has returned.
C12_Witness == Returned /\ courses = <<>> /\ course_map = <<>> /\ idx = 1

C14_MonotoneAlongEdges ==
    (Returned /\ UniqueIds(courses) /\ Acyclic(courses)) =>
        /\ \A e \in Edges(courses) :
               /\ metrics[e[2]].depth >= metrics[e[1]].depth + 1
               /\ metrics[e[2]].earliest_semester > metrics[e[1]].earliest_semester
               /\ metrics[e[1]].height >= metrics[e[2]].height + 1
        /\ \A c \in CourseIds(courses) :
               /\ metrics[c].depth <= Len(courses) - 1
               /\ metrics[c].height <= Len(courses) - 1

\* An edge that a longer chain bypasses (depth grows by two along it), in an
\* input whose deepest course reaches the bound.
C14_Witness ==
    /\ Returned /\ UniqueIds(courses) /\ Acyclic(courses)
    /\ \E e \in Edges(courses) :
           /\ metrics[e[2]].depth = metrics[e[1]].depth + 2
           /\ metrics[e[1]].height = metrics[e[2]].height + 2
    /\ \E c \in CourseIds(courses) : metrics[c].depth = Len(courses) - 1

\* The descents the next iteration of the metrics loop performs mark at most
\* as many courses, one below the other, as the input has courses.
DescentsBounded ==
    (pc = "loop" /\ idx <= Len(courses)) =>
        /\ DepthDescent(courses[idx].id, {}, course_map, DescentCap(courses))
               <= Cardinality(CourseIds(courses))
        /\ HeightDescent(courses[idx].id, {}, courses, DescentCap(courses))
               <= Cardinality(CourseIds(courses))
        /\ Cardinality(CourseIds(courses)) <= Len(courses)

\* Steps the call still has to take: building the map, one iteration per
\* course not yet analysed, the marking pass.
StepsLeft ==
    IF pc = "called" THEN Len(courses) + 2
    ELSE IF pc = "loop" THEN Len(courses) + 2 - idx
    ELSE 0

\* C15: the analysis terminates on every input, cycles, self-loops, dangling
\* references and duplicate ids included: until it has returned a step can
\* always be taken, every step takes the number of steps left down, and no
\* descent of the depth or height computation marks more courses along one
\* path than the input has.
C15_Terminates ==
    /\ [](DescentsBounded /\ StepsLeft \in 0..(Len(courses) + 2))
    /\ [](pc # "returned" => ENABLED Next)
    /\ [][StepsLeft' < StepsLeft]_vars

\* The loop is about to analyse a course of a cyclic input whose descents, for
\* depth and for height, go through every course.
C15_Witness ==
    /\ pc = "loop" /\ idx <= Len(courses)
    /\ HasCycle(courses)
    /\ Len(courses) = MaxCourses
    /\ DepthDescent(courses[idx].id, {}, course_map, DescentCap(courses)) = Len(courses)
    /\ HeightDescent(courses[idx].id, {}, courses, DescentCap(courses)) = Len(courses)

\* The orders a list of n entries can be put in.
Orders(n) == {f \in [1..n -> 1..n] : \A i, j \in 1..n : f[i] = f[j] => i = j}

Reorder(s, f) == [i \in 1..Len(s) |-> s[f[i]]]

\* The inputs that differ from cs in the order of ids inside the prerequisite
\* lists of the courses k, k + 1, ...
RECURSIVE ListReorderings(_, _)
ListReorderings(cs, k) ==
    IF k > Len(cs) THEN {cs}
    ELSE UNION {ListReorderings([cs EXCEPT ![k].prerequisites = Reorder(@, f)], k + 1) :
                    f \in Orders(Len(cs[k].prerequisites))}

\* The courses in reverse order.
Reversed(cs) == [i \in 1..Len(cs) |-> cs[Len(cs) + 1 - i]]

\* C16: on an input with unique ids, cyclic or not, the record of every
\* course id is the same whatever the order of the courses and the order of
\* the ids inside each prerequisite list: stated for every order of the
\* courses, and for every order of every prerequisite list with the courses
\* in the given and in the reverse order.
C16_OrderIndependent ==
    (Returned /\ UniqueIds(courses)) =>
        /\ \A f \in Orders(Len(courses)) :
               calculate_critical_path(Reorder(courses, f)) = metrics
        /\ \A v \in ListReorderings(courses, 1) :
               /\ calculate_critical_path(v) = metrics
               /\ calculate_critical_path(Reversed(v)) = metrics

\* A cyclic input of at least three courses, one of them with two
\* prerequisites of different depth.
C16_Witness ==
    /\ Returned /\ UniqueIds(courses) /\ HasCycle(courses)
    /\ Len(courses) >= 3
    /\ \E i \in DOMAIN courses :
           /\ Len(courses[i].prerequisites) = 2
           /\ {courses[i].prerequisites[1], courses[i].prerequisites[2]}
                  \subseteq CourseIds(courses)
           /\ metrics[courses[i].prerequisites[1]].depth
                  # metrics[courses[i].prerequisites[2]].depth

====
